---- MODULE Spec2Model ----
(***************************************************************************)
(* Model of the virtio-gpu video driver (drivers/virtio/virtio_gpu.c):     *)
(* the blocking request/response adapter virtio_gpu_do_req, the bring-up   *)
(* sequence virtio_gpu_probe and the reentrance-guarded flush              *)
(* virtio_gpu_video_sync, running against a device that answers the        *)
(* requests of the single command queue.                                   *)
(***************************************************************************)
EXTENDS Integers, Sequences, FiniteSets, TLC

(* ---- bounds of the model ---- *)
NScanouts == 3      \* scanout descriptors of a display-info response
MaxFence == 3       \* a top-level flush starts only while fence_id < MaxFence
MaxDepth == 2       \* nesting depth of calls (a flush re-entered from a log call)

(* ---- program constants ---- *)
VIRTIO_GPU_RESP_OK_NODATA == 4352          \* 0x1100
VIRTIO_GPU_RESP_OK_DISPLAY_INFO == 4353    \* 0x1101
VIRTIO_GPU_RESP_ERR_UNSPEC == 4608         \* 0x1200
VIRTIO_GPU_FLAG_FENCE == 1
EINVAL == 22
ENOMEM == 12
ENOSPC == 28

RespTypes ==
  {VIRTIO_GPU_RESP_OK_NODATA, VIRTIO_GPU_RESP_OK_DISPLAY_INFO,
   VIRTIO_GPU_RESP_ERR_UNSPEC}

ProbeCmds ==
  {"GET_DISPLAY_INFO", "RESOURCE_CREATE_2D", "RESOURCE_ATTACH_BACKING",
   "SET_SCANOUT"}

SyncCmds == {"TRANSFER_TO_HOST_2D", "RESOURCE_FLUSH"}

BufNames == {"disp_info_out", "res_create_2d_in", "res_buf_in", "set_scanout_in"}

VARIABLES
  priv,           \* struct virtio_gpu_priv: vq, scanout_res_id, fence_id, in_sync
  plat,           \* struct video_uc_plat: base (0 = no framebuffer reserved)
  dev_state,      \* "Bound", "Probing", "Active", "Failed"
  stack,          \* call stack of driver entry points, innermost frame last
  scanout_mask,   \* probe local
  mem,            \* probe's buffers: ptr (the pointer variable: "uninit",
                  \* "null", "valid"), heap ("unalloc", "alloc", "freed"),
                  \* bad_free (free of a buffer not currently allocated),
                  \* uninit_read (read of a pointer never assigned)
  disp_info_out,  \* enabled scanout indices written into the display-info buffer
  set_scanout_in, \* scanout_id field of the SET_SCANOUT request buffer
  avail,          \* requests submitted to the command queue, not yet answered
  used,           \* responses posted by the device, not yet retrieved
  sent,           \* every request ever submitted, in submission order
  resp_log,       \* every value virtio_gpu_do_req returned, in order
  lastCall,       \* the entry point that returned last
  lastRet,        \* and its return value
  wire,           \* one header exchange followed byte by byte (ByteOrderSpec)
  fb              \* the geometry and framebuffer length path (GeomSpec)

vars ==
  <<priv, plat, dev_state, stack, scanout_mask, mem, disp_info_out, set_scanout_in, avail, used, sent, resp_log,
    lastCall, lastRet, wire, fb>>

\* the variables the driver state machine leaves alone
pure == <<wire, fb>>

(* ---- helpers on the call stack ---- *)
Top == stack[Len(stack)]

Pop == SubSeq(stack, 1, Len(stack) - 1)

SetTop(f) == [stack EXCEPT ![Len(stack)] = f]

Frame(fn) == [fn |-> fn, step |-> "none", phase |-> "entry", ret |-> 0,
              req |-> 0, got |-> 0, len_ok |-> TRUE, logs |-> 0]

(* ---- bit operations on unsigned int scanout_mask ---- *)
TestBit(m, i) == (m \div (2 ^ i)) % 2 = 1

OrBit(m, i) == IF TestBit(m, i) THEN m ELSE m + 2 ^ i

ClearBit(m, i) == IF TestBit(m, i) THEN m - 2 ^ i ELSE m

\* the highest set bit instead of the lowest
RECURSIVE ffs_Highest(_)
ffs_Highest(m) == IF m = 0 THEN 0 ELSE 1 + ffs_Highest(m \div 2)

RECURSIVE ffs(_)
ffs(m) == IF m = 0 THEN 0 ELSE IF m % 2 = 1 THEN 1 ELSE 1 + ffs(m \div 2)

RECURSIVE BuildMask(_, _, _)
BuildMask(enabled, i, m) ==
  IF i >= NScanouts THEN m
  ELSE BuildMask(enabled, i + 1, IF i \in enabled THEN OrBit(m, i) ELSE m)

(* ---- state after bind, with the framebuffer reserved or not ---- *)
Init ==
  /\ priv = [vq |-> FALSE, scanout_res_id |-> 0, fence_id |-> 0, in_sync |-> FALSE]
  /\ plat \in {[base |-> 0], [base |-> 1]}
  /\ dev_state = "Bound"
  /\ stack = <<>>
  /\ scanout_mask = 0
  /\ mem = [ptr |-> [b \in BufNames |-> "uninit"],
            heap |-> [b \in BufNames |-> "unalloc"],
            bad_free |-> FALSE, uninit_read |-> FALSE]
  /\ disp_info_out = {}
  /\ set_scanout_in = 0
  /\ avail = <<>>
  /\ used = <<>>
  /\ sent = <<>>
  /\ resp_log = <<>>
  /\ lastCall = "none"
  /\ lastRet = 0
  /\ wire = [phase |-> "idle"]
  /\ fb = [phase |-> "idle"]

(* ---- malloc / free and the goto cleanup chain of virtio_gpu_probe ---- *)
Malloc(m, b) == [m EXCEPT !.ptr[b] = "valid", !.heap[b] = "alloc"]

Free(m, b) ==
  [m EXCEPT !.heap[b] = "freed",
            !.bad_free = m.bad_free \/ m.heap[b] # "alloc"]

FreeAndNull(m, b) == [Free(m, b) EXCEPT !.ptr[b] = "null"]

\* if (p) free(p);
FreeIfSet(m, b) ==
  IF m.ptr[b] = "uninit" THEN [m EXCEPT !.uninit_read = TRUE]
  ELSE IF m.ptr[b] = "valid" THEN Free(m, b)
  ELSE m

CleanupOrder ==
  <<"set_scanout_in", "res_buf_in", "res_create_2d_in", "disp_info_out">>

LabelIndex(label) ==
  CASE label = "out_free_set_scanout" -> 1
    [] label = "out_free_res_buf" -> 2
    [] label = "out_free_res_create_2d" -> 3
    [] label = "out_free_disp" -> 4

RECURSIVE CleanupFrom(_, _)
CleanupFrom(m, k) ==
  IF k > Len(CleanupOrder) THEN m
  ELSE CleanupFrom(FreeIfSet(m, CleanupOrder[k]), k + 1)

\* goto <label>: the labels fall through to the end of the function
Cleanup(m, label) == CleanupFrom(m, LabelIndex(label))

(* ---- virtio_gpu_do_req: the blocking request/response exchange ---- *)
\* the "flush" argument at each call site
NeedsFence(step) == step \in SyncCmds

\* the counter not advanced
NextFence_Stuck(f) == f

\* priv->fence_id++ (a u64: the guard of SyncCall keeps the counter near
\* MaxFence, so the wrap at 2^64 is outside the model)
NextFence(f) == f + 1

\* the counter advanced only when the request was queued
FenceAfter_OnlyIfAdded(flush, added, f) ==
  IF flush /\ added THEN NextFence(f) ELSE f

\* lines 40-46: the counter after the header is filled, whatever
\* virtqueue_add returns afterwards
FenceAfter(flush, added, f) == IF flush THEN NextFence(f) ELSE f

\* the fence id taken after the increment
Header_PreIncrement(step, flush, fence) ==
  [type |-> step,
   flags |-> IF flush THEN VIRTIO_GPU_FLAG_FENCE ELSE 0,
   fence_id |-> IF flush THEN fence + 1 ELSE 0]

\* the control header written by lines 39-48
Header(step, flush, fence) ==
  [type |-> step,
   flags |-> IF flush THEN VIRTIO_GPU_FLAG_FENCE ELSE 0,
   fence_id |-> IF flush THEN fence ELSE 0]

\* scanout_id of the request payload (SET_SCANOUT only)
Payload(step) == IF step = "SET_SCANOUT" THEN set_scanout_in ELSE 0

\* lines 39-59: fill the header, virtqueue_add, virtqueue_kick
DoReqSubmit ==
  /\ stack # <<>>
  /\ Top.phase = "add"
  /\ LET step == Top.step
         flush == NeedsFence(step)
         id == Len(sent) + 1
         req == [id |-> id, hdr |-> Header(step, flush, priv.fence_id),
                 scanout_id |-> Payload(step), depth |-> Len(stack)]
     IN \E added \in BOOLEAN :
          /\ priv' = [priv EXCEPT
                        !.fence_id = FenceAfter(flush, added, priv.fence_id)]
          /\ IF added
             THEN /\ avail' = Append(avail, req)
                  /\ sent' = Append(sent, req)
                  /\ stack' = SetTop([Top EXCEPT !.phase = "wait", !.req = id,
                                                 !.len_ok = TRUE, !.logs = 0])
                  /\ UNCHANGED resp_log
             ELSE /\ stack' = SetTop([Top EXCEPT !.phase = "ret", !.ret = -ENOSPC,
                                                 !.req = 0, !.got = 0,
                                                 !.len_ok = TRUE, !.logs = 0])
                  /\ resp_log' = Append(resp_log, [step |-> step, ret |-> -ENOSPC,
                                                   req |-> 0, got |-> 0])
                  /\ UNCHANGED <<avail, sent>>
  /\ UNCHANGED <<plat, dev_state, scanout_mask, mem, disp_info_out,
                 set_scanout_in, used, lastCall, lastRet>>
  /\ UNCHANGED pure

\* the device answers the oldest request of the command queue
DeviceComplete ==
  /\ avail # <<>>
  /\ LET req == Head(avail)
     IN \E type \in RespTypes :
          \E enabled \in (IF req.hdr.type = "GET_DISPLAY_INFO"
                             /\ type = VIRTIO_GPU_RESP_OK_DISPLAY_INFO
                          THEN SUBSET (0 .. NScanouts - 1) ELSE {{}}) :
            \E len_ok \in BOOLEAN :
              used' = Append(used, [id |-> req.id, type |-> type,
                                    enabled |-> enabled, len_ok |-> len_ok])
  /\ avail' = Tail(avail)
  /\ UNCHANGED <<priv, plat, dev_state, stack, scanout_mask, mem,
                 disp_info_out, set_scanout_in, sent, resp_log, lastCall,
                 lastRet>>
  /\ UNCHANGED pure

\* the wait given up although no completion was posted
GetBufReady_GivesUp(u) == TRUE

\* while (!virtqueue_get_buf(priv->vq, &len)) ;
GetBufReady(u) == u # <<>>

\* a wrongly sized response turned into an error
DoReqResult_SizeChecked(type, len_ok) == IF len_ok THEN type ELSE -EINVAL

\* lines 66-71: a size mismatch is only logged, the type is returned
DoReqResult(type, len_ok) == type

\* lines 61-71: busy-wait on virtqueue_get_buf, return the response type
DoReqGetBuf ==
  /\ stack # <<>>
  /\ Top.phase = "wait"
  /\ GetBufReady(used)
  /\ LET resp == IF used # <<>> THEN Head(used)
                  ELSE [id |-> 0, type |-> 0, enabled |-> {}, len_ok |-> FALSE]
         ret == DoReqResult(resp.type, resp.len_ok)
     IN /\ stack' = SetTop([Top EXCEPT !.phase = "ret", !.ret = ret,
                                       !.got = resp.id,
                                       !.len_ok = resp.len_ok, !.logs = 0])
        /\ disp_info_out' = IF Top.step = "GET_DISPLAY_INFO"
                            THEN resp.enabled ELSE disp_info_out
        /\ resp_log' = Append(resp_log, [step |-> Top.step, ret |-> ret,
                                         req |-> Top.req, got |-> resp.id])
  /\ used' = IF used # <<>> THEN Tail(used) ELSE used
  /\ UNCHANGED <<priv, plat, dev_state, scanout_mask, mem, set_scanout_in,
                 avail, sent, lastCall, lastRet>>
  /\ UNCHANGED pure

(* ---- virtio_gpu_probe: the bring-up sequence ---- *)
\* SET_SCANOUT compared against the wrong response type
Expected_Wrong(step) ==
  IF step \in {"GET_DISPLAY_INFO", "SET_SCANOUT"}
  THEN VIRTIO_GPU_RESP_OK_DISPLAY_INFO
  ELSE VIRTIO_GPU_RESP_OK_NODATA

\* the response type each step compares against (lines 107, 145, 169, 192)
Expected(step) ==
  IF step = "GET_DISPLAY_INFO" THEN VIRTIO_GPU_RESP_OK_DISPLAY_INFO
  ELSE VIRTIO_GPU_RESP_OK_NODATA

\* the empty-mask check left out
MaskEmpty_Never(m) == FALSE

\* if (!scanout_mask)
MaskEmpty(m) == m = 0

\* the assignment of the resource id left out
SetScanoutResId_Skipped(p) == p

\* priv->scanout_res_id = 1
SetScanoutResId(p) == [p EXCEPT !.scanout_res_id = 1]

\* the goto target of each failing step
DispFailLabel == "out_free_disp"

Create2dFailLabel == "out_free_res_create_2d"

AttachFailLabel_Skips == "out_free_res_create_2d"

AttachFailLabel == "out_free_res_buf"

SetScanoutFailLabel == "out_free_set_scanout"

\* the driver model calls the probe method of a bound device
ProbeCall ==
  /\ dev_state = "Bound"
  /\ stack = <<>>
  /\ stack' = <<Frame("probe")>>
  /\ dev_state' = "Probing"
  /\ UNCHANGED <<priv, plat, scanout_mask, mem, disp_info_out, set_scanout_in,
                 avail, used, sent, resp_log, lastCall, lastRet>>
  /\ UNCHANGED pure

ProbeReturn(ret) ==
  /\ stack' = Pop
  /\ lastCall' = "probe"
  /\ lastRet' = ret
  /\ dev_state' = IF ret = 0 THEN "Active" ELSE "Failed"

ProbeIssue(step) == stack' = SetTop([Top EXCEPT !.step = step, !.phase = "add"])

\* the framebuffer check left out
NoFramebuffer_Never(p) == FALSE

\* if (!plat->base)
NoFramebuffer(p) == p.base = 0

\* lines 91-102: framebuffer check, virtio_find_vqs, first malloc
ProbeStart ==
  /\ stack # <<>>
  /\ Top.fn = "probe"
  /\ Top.phase = "entry"
  /\ IF NoFramebuffer(plat)
     THEN /\ ProbeReturn(-EINVAL)
          /\ UNCHANGED <<priv, mem>>
     ELSE \E found \in BOOLEAN :
            IF found
            THEN /\ priv' = [priv EXCEPT !.vq = TRUE]
                 /\ mem' = Malloc(mem, "disp_info_out")
                 /\ ProbeIssue("GET_DISPLAY_INFO")
                 /\ UNCHANGED <<dev_state, lastCall, lastRet>>
            ELSE /\ ProbeReturn(-ENOMEM)
                 /\ UNCHANGED <<priv, mem>>
  /\ UNCHANGED <<plat, scanout_mask, disp_info_out, set_scanout_in, avail,
                 used, sent, resp_log>>
  /\ UNCHANGED pure

\* lines 107-140: check the display info, build the mask, prepare CREATE_2D
ProbeAfterDisplayInfo ==
  /\ stack # <<>>
  /\ Top.fn = "probe"
  /\ Top.step = "GET_DISPLAY_INFO"
  /\ Top.phase = "ret"
  /\ IF Top.ret # Expected("GET_DISPLAY_INFO")
     THEN /\ mem' = Cleanup(mem, DispFailLabel)
          /\ ProbeReturn(-EINVAL)
          /\ UNCHANGED <<priv, scanout_mask>>
     ELSE LET mask == BuildMask(disp_info_out, 0, scanout_mask)
          IN /\ scanout_mask' = mask
             /\ IF MaskEmpty(mask)
                THEN /\ mem' = Cleanup(mem, DispFailLabel)
                     /\ ProbeReturn(-EINVAL)
                     /\ UNCHANGED priv
                ELSE /\ mem' = Malloc(FreeAndNull(mem, "disp_info_out"),
                                      "res_create_2d_in")
                     /\ priv' = SetScanoutResId(priv)
                     /\ ProbeIssue("RESOURCE_CREATE_2D")
                     /\ UNCHANGED <<dev_state, lastCall, lastRet>>
  /\ UNCHANGED <<plat, disp_info_out, set_scanout_in, avail, used, sent,
                 resp_log>>
  /\ UNCHANGED pure

\* lines 145-162: check CREATE_2D, prepare ATTACH_BACKING
ProbeAfterCreate2d ==
  /\ stack # <<>>
  /\ Top.fn = "probe"
  /\ Top.step = "RESOURCE_CREATE_2D"
  /\ Top.phase = "ret"
  /\ IF Top.ret # Expected("RESOURCE_CREATE_2D")
     THEN /\ mem' = Cleanup(mem, Create2dFailLabel)
          /\ ProbeReturn(-EINVAL)
     ELSE /\ mem' = Malloc(FreeAndNull(mem, "res_create_2d_in"), "res_buf_in")
          /\ ProbeIssue("RESOURCE_ATTACH_BACKING")
          /\ UNCHANGED <<dev_state, lastCall, lastRet>>
  /\ UNCHANGED <<priv, plat, scanout_mask, disp_info_out, set_scanout_in,
                 avail, used, sent, resp_log>>
  /\ UNCHANGED pure

\* lines 169-186: check ATTACH_BACKING, enter the SET_SCANOUT loop
ProbeAfterAttach ==
  /\ stack # <<>>
  /\ Top.fn = "probe"
  /\ Top.step = "RESOURCE_ATTACH_BACKING"
  /\ Top.phase = "ret"
  /\ IF Top.ret # Expected("RESOURCE_ATTACH_BACKING")
     THEN /\ mem' = Cleanup(mem, AttachFailLabel)
          /\ ProbeReturn(-EINVAL)
          /\ UNCHANGED set_scanout_in
     ELSE LET m == Malloc(FreeAndNull(mem, "res_buf_in"), "set_scanout_in")
          IN IF scanout_mask # 0
             THEN /\ mem' = m
                  /\ set_scanout_in' = ffs(scanout_mask) - 1
                  /\ ProbeIssue("SET_SCANOUT")
                  /\ UNCHANGED <<dev_state, lastCall, lastRet>>
             ELSE /\ mem' = FreeAndNull(m, "set_scanout_in")
                  /\ ProbeReturn(0)
                  /\ UNCHANGED set_scanout_in
  /\ UNCHANGED <<priv, plat, scanout_mask, disp_info_out, avail, used, sent,
                 resp_log>>
  /\ UNCHANGED pure

\* lines 192-203: check SET_SCANOUT, clear the bit, loop or finish
ProbeAfterSetScanout ==
  /\ stack # <<>>
  /\ Top.fn = "probe"
  /\ Top.step = "SET_SCANOUT"
  /\ Top.phase = "ret"
  /\ IF Top.ret # Expected("SET_SCANOUT")
     THEN /\ mem' = Cleanup(mem, SetScanoutFailLabel)
          /\ ProbeReturn(-EINVAL)
          /\ UNCHANGED <<scanout_mask, set_scanout_in>>
     ELSE LET active_scanout == ffs(scanout_mask) - 1
              mask == ClearBit(scanout_mask, active_scanout)
          IN /\ scanout_mask' = mask
             /\ IF mask # 0
                THEN /\ set_scanout_in' = ffs(mask) - 1
                     /\ ProbeIssue("SET_SCANOUT")
                     /\ UNCHANGED <<mem, dev_state, lastCall, lastRet>>
                ELSE /\ mem' = FreeAndNull(mem, "set_scanout_in")
                     /\ ProbeReturn(0)
                     /\ UNCHANGED set_scanout_in
  /\ UNCHANGED <<priv, plat, disp_info_out, avail, used, sent, resp_log>>
  /\ UNCHANGED pure

(* ---- virtio_gpu_video_sync: the flush ---- *)
\* the reentrance check left out
InSyncGuard_Off(p) == FALSE

\* if (priv->in_sync)
InSyncGuard(p) == p.in_sync

\* priv->in_sync = false on the three return paths (lines 261, 277, 281)
TransferFailClear_Kept(p) == p

TransferFailClear(p) == [p EXCEPT !.in_sync = FALSE]

FlushFailClear_Kept(p) == p

FlushFailClear(p) == [p EXCEPT !.in_sync = FALSE]

SuccessClear(p) == [p EXCEPT !.in_sync = FALSE]

\* only a transport error counted as a failed transfer
TransferFailed_ErrnoOnly(ret) == ret < 0

\* if (ret != VIRTIO_GPU_RESP_OK_NODATA) after TRANSFER_TO_HOST_2D
TransferFailed(ret) == ret # VIRTIO_GPU_RESP_OK_NODATA

\* only a response type counted as a failed flush
FlushFailed_RespOnly(ret) == ret > 0 /\ ret # VIRTIO_GPU_RESP_OK_NODATA

\* if (ret != VIRTIO_GPU_RESP_OK_NODATA) after RESOURCE_FLUSH
FlushFailed(ret) == ret # VIRTIO_GPU_RESP_OK_NODATA

\* the log and debug calls a flush makes at this point: line 61 while it
\* waits; after the exchange lines 56 or 64, 67 on a size mismatch, and
\* 260 or 276 on a failure
LogCalls(f) ==
  IF f.phase = "wait" THEN 1
  ELSE IF f.req = 0 THEN 2
  ELSE 1 + (IF f.len_ok THEN 0 ELSE 1)
         + (IF f.ret # VIRTIO_GPU_RESP_OK_NODATA THEN 1 ELSE 0)

\* a log or debug call made while a flush runs writes to the video console,
\* whose refresh calls video_sync of this device again
ReentryPoint(f) ==
  /\ f.fn = "sync"
  /\ f.phase \in {"wait", "ret"}
  /\ f.logs < LogCalls(f)

\* the video uclass calls video_sync of an active device
SyncCall ==
  /\ \/ stack = <<>> /\ dev_state = "Active" /\ priv.fence_id < MaxFence
     \/ stack # <<>> /\ ReentryPoint(Top) /\ Len(stack) < MaxDepth
  /\ stack' = IF stack = <<>> THEN <<Frame("sync")>>
               ELSE Append(SetTop([Top EXCEPT !.logs = @ + 1]), Frame("sync"))
  /\ UNCHANGED <<priv, plat, dev_state, scanout_mask, mem, disp_info_out,
                 set_scanout_in, avail, used, sent, resp_log, lastCall,
                 lastRet>>
  /\ UNCHANGED pure

SyncReturn(ret) ==
  /\ stack' = Pop
  /\ lastCall' = IF Len(stack) > 1 THEN "sync_nested" ELSE "sync"
  /\ lastRet' = ret

\* lines 243-254: the reentrance check, then the TRANSFER_TO_HOST_2D request
SyncCheck ==
  /\ stack # <<>>
  /\ Top.fn = "sync"
  /\ Top.phase = "entry"
  /\ IF InSyncGuard(priv)
     THEN /\ SyncReturn(0)
          /\ UNCHANGED priv
     ELSE /\ priv' = [priv EXCEPT !.in_sync = TRUE]
          /\ stack' = SetTop([Top EXCEPT !.step = "TRANSFER_TO_HOST_2D",
                                         !.phase = "add"])
          /\ UNCHANGED <<lastCall, lastRet>>
  /\ UNCHANGED <<plat, dev_state, scanout_mask, mem, disp_info_out,
                 set_scanout_in, avail, used, sent, resp_log>>
  /\ UNCHANGED pure

\* lines 259-270: check TRANSFER_TO_HOST_2D, prepare RESOURCE_FLUSH
SyncAfterTransfer ==
  /\ stack # <<>>
  /\ Top.fn = "sync"
  /\ Top.step = "TRANSFER_TO_HOST_2D"
  /\ Top.phase = "ret"
  /\ IF TransferFailed(Top.ret)
     THEN /\ priv' = TransferFailClear(priv)
          /\ SyncReturn(-EINVAL)
     ELSE /\ stack' = SetTop([Top EXCEPT !.step = "RESOURCE_FLUSH",
                                         !.phase = "add", !.logs = 0])
          /\ UNCHANGED <<priv, lastCall, lastRet>>
  /\ UNCHANGED <<plat, dev_state, scanout_mask, mem, disp_info_out,
                 set_scanout_in, avail, used, sent, resp_log>>
  /\ UNCHANGED pure

\* lines 275-283: check RESOURCE_FLUSH, clear in_sync, return
SyncAfterFlush ==
  /\ stack # <<>>
  /\ Top.fn = "sync"
  /\ Top.step = "RESOURCE_FLUSH"
  /\ Top.phase = "ret"
  /\ IF FlushFailed(Top.ret)
     THEN /\ priv' = FlushFailClear(priv)
          /\ SyncReturn(-EINVAL)
     ELSE /\ priv' = SuccessClear(priv)
          /\ SyncReturn(0)
  /\ UNCHANGED <<plat, dev_state, scanout_mask, mem, disp_info_out,
                 set_scanout_in, avail, used, sent, resp_log>>
  /\ UNCHANGED pure

Next ==
  \/ ProbeCall
  \/ ProbeStart
  \/ ProbeAfterDisplayInfo
  \/ ProbeAfterCreate2d
  \/ ProbeAfterAttach
  \/ ProbeAfterSetScanout
  \/ SyncCall
  \/ SyncCheck
  \/ SyncAfterTransfer
  \/ SyncAfterFlush
  \/ DoReqSubmit
  \/ DeviceComplete
  \/ DoReqGetBuf

Spec == Init /\ [][Next]_vars

\* The driver is a sequential program: the step at the top of the call
\* stack is taken; a device that works answers the request it was handed.
\* Nobody is obliged to call probe or video_sync.
DriverStep ==
  \/ ProbeStart
  \/ ProbeAfterDisplayInfo
  \/ ProbeAfterCreate2d
  \/ ProbeAfterAttach
  \/ ProbeAfterSetScanout
  \/ SyncCheck
  \/ SyncAfterTransfer
  \/ SyncAfterFlush
  \/ DoReqSubmit
  \/ DoReqGetBuf

FairSpec == Spec /\ WF_vars(DriverStep) /\ WF_vars(DeviceComplete)

(* ---- byte order of the control header (lines 39 and 71) ---- *)
\* A u32 is a tuple of four bytes, most significant first; memory is a
\* tuple of four bytes by ascending address.
ByteSamples == {0, 1, 17, 18, 255}

Words == [1 .. 4 -> ByteSamples]

WordOf(n) ==
  [i \in 1 .. 4 |->
     CASE i = 1 -> (n \div 16777216) % 256
       [] i = 2 -> (n \div 65536) % 256
       [] i = 3 -> (n \div 256) % 256
       [] i = 4 -> n % 256]

\* enum virtio_gpu_ctrl_type
CmdCode(step) ==
  CASE step = "GET_DISPLAY_INFO" -> 256
    [] step = "RESOURCE_CREATE_2D" -> 257
    [] step = "SET_SCANOUT" -> 259
    [] step = "RESOURCE_FLUSH" -> 260
    [] step = "TRANSFER_TO_HOST_2D" -> 261
    [] step = "RESOURCE_ATTACH_BACKING" -> 262

swab32(w) == [i \in 1 .. 4 |-> w[5 - i]]

\* the bytes a CPU store of w leaves in memory, and the value a load reads
StoreWord(cpu_le, w) == IF cpu_le THEN swab32(w) ELSE w

LoadWord(cpu_le, bytes) == IF cpu_le THEN swab32(bytes) ELSE bytes

cpu_to_le32(cpu_le, w) == IF cpu_le THEN w ELSE swab32(w)

cpu_to_be32(cpu_le, w) == IF cpu_le THEN swab32(w) ELSE w

\* a VERSION_1 device is little-endian, a legacy device has the order of
\* the CPU
virtio_is_little_endian(cpu_le, version_1) == version_1 \/ cpu_le

cpu_to_virtio32(cpu_le, version_1, w) ==
  IF virtio_is_little_endian(cpu_le, version_1)
  THEN cpu_to_le32(cpu_le, w) ELSE cpu_to_be32(cpu_le, w)

\* le32_to_cpu and be32_to_cpu are the same swaps as cpu_to_le32, cpu_to_be32
virtio32_to_cpu(cpu_le, version_1, w) ==
  IF virtio_is_little_endian(cpu_le, version_1)
  THEN cpu_to_le32(cpu_le, w) ELSE cpu_to_be32(cpu_le, w)

\* the device reads and writes its fields in device byte order
DeviceRead(cpu_le, version_1, bytes) ==
  IF virtio_is_little_endian(cpu_le, version_1) THEN swab32(bytes) ELSE bytes

DeviceWrite(cpu_le, version_1, w) ==
  IF virtio_is_little_endian(cpu_le, version_1) THEN swab32(w) ELSE w

\* the type stored without conversion
EncodeType_Raw(cpu_le, version_1, w) == StoreWord(cpu_le, w)

\* line 39: ctrl_hdr_in->type = cpu_to_virtio32(dev, (u32)type)
EncodeType(cpu_le, version_1, w) ==
  StoreWord(cpu_le, cpu_to_virtio32(cpu_le, version_1, w))

\* the type field returned without conversion
DecodeType_Raw(cpu_le, version_1, bytes) == LoadWord(cpu_le, bytes)

\* line 71: return virtio32_to_cpu(dev, ctrl_hdr_out->type)
DecodeType(cpu_le, version_1, bytes) ==
  virtio32_to_cpu(cpu_le, version_1, LoadWord(cpu_le, bytes))

WireInit ==
  /\ wire \in [phase : {"start"}, cpu_le : BOOLEAN, version_1 : BOOLEAN,
                type : {WordOf(CmdCode(c)) : c \in ProbeCmds \cup SyncCmds},
                resp : Words, req_bytes : {<<>>}, dev_type : {<<>>},
                resp_bytes : {<<>>}, ret : {<<>>}]
  /\ priv = [vq |-> FALSE, scanout_res_id |-> 0, fence_id |-> 0, in_sync |-> FALSE]
  /\ plat = [base |-> 0]
  /\ dev_state = "Bound"
  /\ stack = <<>>
  /\ scanout_mask = 0
  /\ mem = [ptr |-> [b \in BufNames |-> "uninit"],
            heap |-> [b \in BufNames |-> "unalloc"],
            bad_free |-> FALSE, uninit_read |-> FALSE]
  /\ disp_info_out = {}
  /\ set_scanout_in = 0
  /\ avail = <<>>
  /\ used = <<>>
  /\ sent = <<>>
  /\ resp_log = <<>>
  /\ lastCall = "none"
  /\ lastRet = 0
  /\ fb = [phase |-> "idle"]

driver ==
  <<priv, plat, dev_state, stack, scanout_mask, mem, disp_info_out,
    set_scanout_in, avail, used, sent, resp_log, lastCall, lastRet>>

\* line 39: the request type goes into the header in device byte order
WireEncode ==
  /\ wire.phase = "start"
  /\ wire' = [wire EXCEPT
                !.phase = "sent",
                !.req_bytes = EncodeType(wire.cpu_le, wire.version_1, wire.type)]
  /\ UNCHANGED <<driver, fb>>

\* the device reads the request type and writes the response type
WireDevice ==
  /\ wire.phase = "sent"
  /\ wire' = [wire EXCEPT
                !.phase = "answered",
                !.dev_type = DeviceRead(wire.cpu_le, wire.version_1,
                                        wire.req_bytes),
                !.resp_bytes = DeviceWrite(wire.cpu_le, wire.version_1,
                                           wire.resp)]
  /\ UNCHANGED <<driver, fb>>

\* line 71: the response type is read back in CPU byte order
WireDecode ==
  /\ wire.phase = "answered"
  /\ wire' = [wire EXCEPT
                !.phase = "done",
                !.ret = DecodeType(wire.cpu_le, wire.version_1,
                                   wire.resp_bytes)]
  /\ UNCHANGED <<driver, fb>>

WireNext == WireEncode \/ WireDevice \/ WireDecode

ByteOrderSpec == WireInit /\ [][WireNext]_vars

(* ======================================================================= *)
(* Geometry and framebuffer length                                         *)
(* ======================================================================= *)
\* largest configured width and height explored
MaxDim == 5

\* include/video_format.h line 18: VIDEO_BPP8 = 3, VIDEO_BPP16, VIDEO_BPP32
VIDEO_BPP32 == 5

\* include/video_format.h line 25: ((1 << (bpix)) / 8)
VNBYTES(bpix) == (2 ^ bpix) \div 8

\* lines 227-228: plat->size = SIZE_X * SIZE_X * VNBYTES(VIDEO_BPP32);
\* the configured height y does not enter the product
BindSize(x, y) == x * x * VNBYTES(VIDEO_BPP32)

GeomInit ==
  /\ fb \in [phase : {"start"}, X : 1..MaxDim, Y : 1..MaxDim, size : {0},
             xsize : {0}, ysize : {0}, bpix : {0},
             create_w : {0}, create_h : {0}, attach_len : {0},
             rect_w : {0}, rect_h : {0}]
  /\ wire = [phase |-> "idle"]
  /\ priv = [vq |-> FALSE, scanout_res_id |-> 0, fence_id |-> 0, in_sync |-> FALSE]
  /\ plat = [base |-> 0]
  /\ dev_state = "Bound"
  /\ stack = <<>>
  /\ scanout_mask = 0
  /\ mem = [ptr |-> [b \in BufNames |-> "uninit"],
            heap |-> [b \in BufNames |-> "unalloc"],
            bad_free |-> FALSE, uninit_read |-> FALSE]
  /\ disp_info_out = {}
  /\ set_scanout_in = 0
  /\ avail = <<>>
  /\ used = <<>>
  /\ sent = <<>>
  /\ resp_log = <<>>
  /\ lastCall = "none"
  /\ lastRet = 0

\* lines 226-228: bind records the framebuffer length for the video uclass
GeomBind ==
  /\ fb.phase = "start"
  /\ fb' = [fb EXCEPT !.phase = "bound", !.size = BindSize(fb.X, fb.Y)]
  /\ UNCHANGED <<driver, wire>>

\* lines 131-133: probe publishes the configured geometry and depth
GeomProbe ==
  /\ fb.phase = "bound"
  /\ fb' = [fb EXCEPT !.phase = "geometry",
                      !.xsize = fb.X, !.ysize = fb.Y, !.bpix = VIDEO_BPP32]
  /\ UNCHANGED <<driver, wire>>

\* lines 139-140: RESOURCE_CREATE_2D carries xsize by ysize
GeomCreate2d ==
  /\ fb.phase = "geometry"
  /\ fb' = [fb EXCEPT !.phase = "created",
                      !.create_w = fb.xsize, !.create_h = fb.ysize]
  /\ UNCHANGED <<driver, wire>>

\* line 161: the single memory entry has length plat->size
GeomAttach ==
  /\ fb.phase = "created"
  /\ fb' = [fb EXCEPT !.phase = "attached", !.attach_len = fb.size]
  /\ UNCHANGED <<driver, wire>>

\* lines 250-251: every flush transfers the rectangle xsize by ysize
GeomFlush ==
  /\ fb.phase = "attached"
  /\ fb' = [fb EXCEPT !.phase = "flushed",
                      !.rect_w = fb.xsize, !.rect_h = fb.ysize]
  /\ UNCHANGED <<driver, wire>>

GeomNext == GeomBind \/ GeomProbe \/ GeomCreate2d \/ GeomAttach \/ GeomFlush

GeomSpec == GeomInit /\ [][GeomNext]_vars

(* ======================================================================= *)
(* Properties                                                              *)
(* ======================================================================= *)
Outstanding == Len(avail) + Len(used)

Fenced == SelectSeq(sent, LAMBDA r : r.hdr.flags = VIRTIO_GPU_FLAG_FENCE)

SentTypes == {sent[i].hdr.type : i \in DOMAIN sent}

FlushRunning ==
  \E i \in DOMAIN stack : stack[i].fn = "sync" /\ stack[i].phase # "entry"

\* RESOURCE_CREATE_2D has been answered with OK_NODATA
Created ==
  \E i \in DOMAIN resp_log :
    /\ resp_log[i].step = "RESOURCE_CREATE_2D"
    /\ resp_log[i].ret = VIRTIO_GPU_RESP_OK_NODATA

\* bring-up has accepted the display info and set up the CREATE_2D request
Create2dPrepared == mem.heap["res_create_2d_in"] # "unalloc"

\* C1: a flush entered while in_sync is set returns 0 at once, submits no
\* request, does not advance the fence counter and leaves in_sync set.
C1_ReentrantFlushIsNoop ==
  [][(/\ stack # <<>>
      /\ Top.fn = "sync"
      /\ Top.phase = "entry"
      /\ priv.in_sync
      /\ stack' # stack)
     => (/\ stack' = Pop
         /\ lastRet' = 0
         /\ sent' = sent
         /\ avail' = avail
         /\ priv' = priv)]_vars

C1_Witness ==
  /\ lastCall = "sync_nested"
  /\ lastRet = 0
  /\ Len(stack) = 1
  /\ Top.phase = "wait"
  /\ priv.in_sync

\* C2 as stated: the scanout resource id is 0 until RESOURCE_CREATE_2D has
\* been answered with OK_NODATA and nonzero afterwards.
C2_Original ==
  IF Created THEN priv.scanout_res_id # 0 ELSE priv.scanout_res_id = 0

\* C2 amended: the scanout resource id is 0 until bring-up has accepted the
\* display info and set up the RESOURCE_CREATE_2D request; from then on,
\* before the request is answered and also after a bring-up that fails at
\* RESOURCE_CREATE_2D, it is 1 and never changes.
C2_ResIdSetBeforeCreate ==
  /\ [](priv.scanout_res_id = IF Create2dPrepared THEN 1 ELSE 0)
  /\ [][priv.scanout_res_id # 0
          => priv'.scanout_res_id = priv.scanout_res_id]_vars

C2_Witness ==
  /\ dev_state = "Failed"
  /\ ~Created
  /\ priv.scanout_res_id = 1
  /\ resp_log[Len(resp_log)].step = "RESOURCE_CREATE_2D"

\* C3: the fence ids of the fenced requests strictly increase in submission
\* order (so no two are equal), all lie below the counter, and the counter
\* never decreases.
C3_FenceIdsIncrease ==
  /\ [](/\ \A i, j \in DOMAIN Fenced :
            i < j => Fenced[i].hdr.fence_id < Fenced[j].hdr.fence_id
        /\ \A k \in DOMAIN Fenced : Fenced[k].hdr.fence_id < priv.fence_id)
  /\ [][priv'.fence_id >= priv.fence_id]_vars

C3_Witness ==
  /\ Len(Fenced) >= 3
  /\ \E i \in DOMAIN resp_log :
       resp_log[i].step \in SyncCmds /\ resp_log[i].ret = -ENOSPC

\* C4: in_sync is set only while a flush that passed the reentrance check
\* is executing; it is clear whenever no flush is running, whichever way
\* the last flush returned, and bring-up never sets it.
C4_InSyncOnlyDuringFlush == priv.in_sync <=> FlushRunning

C4_Witness ==
  /\ stack = <<>>
  /\ lastCall = "sync"
  /\ lastRet = -EINVAL
  /\ resp_log[Len(resp_log)].step = "TRANSFER_TO_HOST_2D"
  /\ ~priv.in_sync

\* the display info was accepted (OK_DISPLAY_INFO) with no scanout enabled
EmptyDisplayInfo ==
  /\ resp_log # <<>>
  /\ resp_log[1].step = "GET_DISPLAY_INFO"
  /\ resp_log[1].ret = VIRTIO_GPU_RESP_OK_DISPLAY_INFO
  /\ disp_info_out = {}

\* C5: with an OK_DISPLAY_INFO response that enables no scanout, bring-up
\* returns -EINVAL and issues none of RESOURCE_CREATE_2D,
\* RESOURCE_ATTACH_BACKING, SET_SCANOUT.
C5_NoScanoutFails ==
  EmptyDisplayInfo =>
    /\ SentTypes \subseteq {"GET_DISPLAY_INFO"}
    /\ dev_state \in {"Probing", "Failed"}
    /\ dev_state = "Failed" => lastCall = "probe" /\ lastRet = -EINVAL

C5_Witness ==
  /\ EmptyDisplayInfo
  /\ dev_state = "Failed"
  /\ lastRet = -EINVAL

\* the display info was accepted with at least one scanout enabled
NonEmptyDisplayInfo ==
  /\ resp_log # <<>>
  /\ resp_log[1].step = "GET_DISPLAY_INFO"
  /\ resp_log[1].ret = VIRTIO_GPU_RESP_OK_DISPLAY_INFO
  /\ disp_info_out # {}

ProbeLog == SelectSeq(resp_log, LAMBDA e : e.step \in ProbeCmds)

\* every exchange of bring-up after GET_DISPLAY_INFO returned OK_NODATA
LaterAllOk ==
  \A i \in 2 .. Len(ProbeLog) : ProbeLog[i].ret = VIRTIO_GPU_RESP_OK_NODATA

\* C6 as stated: a display info with an enabled scanout makes bring-up
\* succeed.
C6_Original == NonEmptyDisplayInfo => dev_state # "Failed"

\* C6 amended: after an OK_DISPLAY_INFO response with at least one enabled
\* scanout, bring-up returns 0 exactly when every later request of the
\* attempt is submitted and answered with OK_NODATA, and -EINVAL otherwise.
C6_SucceedsIffLaterStepsOk ==
  (NonEmptyDisplayInfo /\ dev_state \in {"Active", "Failed"}) =>
    /\ dev_state = "Active" <=> LaterAllOk
    /\ dev_state = "Failed" => lastCall = "probe" /\ lastRet = -EINVAL

C6_Witness ==
  /\ NonEmptyDisplayInfo
  /\ dev_state = "Active"
  /\ Cardinality(disp_info_out) >= 2
  /\ lastCall = "probe"
  /\ lastRet = 0

SetScanouts == SelectSeq(sent, LAMBDA r : r.hdr.type = "SET_SCANOUT")

\* C7: the SET_SCANOUT requests go out in strictly ascending scanout index,
\* only for enabled indices, and a bring-up whose responses all match has
\* sent exactly one for each enabled index.
C7_SetScanoutPerEnabledIndex ==
  /\ \A i, j \in DOMAIN SetScanouts :
       i < j => SetScanouts[i].scanout_id < SetScanouts[j].scanout_id
  /\ \A i \in DOMAIN SetScanouts : SetScanouts[i].scanout_id \in disp_info_out
  /\ dev_state = "Active" =>
       /\ {SetScanouts[i].scanout_id : i \in DOMAIN SetScanouts} = disp_info_out
       /\ Len(SetScanouts) = Cardinality(disp_info_out)
       /\ scanout_mask = 0

C7_Witness ==
  /\ dev_state = "Active"
  /\ disp_info_out = {0, 2}
  /\ Len(SetScanouts) = 2

\* C8: when bring-up fails after the command queue was acquired, no buffer
\* of the attempt is still allocated, none was freed twice or without
\* having been allocated, and no unassigned pointer was read.
C8_FailureReleasesBuffers ==
  (dev_state = "Failed" /\ priv.vq) =>
    /\ \A b \in BufNames : mem.heap[b] # "alloc"
    /\ mem.heap["disp_info_out"] = "freed"
    /\ ~mem.bad_free
    /\ ~mem.uninit_read

C8_Witness ==
  /\ dev_state = "Failed"
  /\ priv.vq
  /\ resp_log[Len(resp_log)].step = "RESOURCE_ATTACH_BACKING"
  /\ mem.heap["res_create_2d_in"] = "freed"
  /\ mem.heap["res_buf_in"] = "freed"
  /\ mem.heap["set_scanout_in"] = "unalloc"

\* C9: at most one request is outstanding on the command queue, every
\* exchange retrieves the completion of the request it submitted, and the
\* completions are retrieved in submission order.
C9_OneRequestOutstanding ==
  /\ Outstanding <= 1
  /\ \A i \in DOMAIN resp_log :
       resp_log[i].got # 0 => resp_log[i].got = resp_log[i].req
  /\ \A i, j \in DOMAIN resp_log :
       (i < j /\ resp_log[i].got # 0 /\ resp_log[j].got # 0)
         => resp_log[i].got < resp_log[j].got

C9_Witness ==
  /\ lastCall = "sync_nested"
  /\ Len(stack) = 1
  /\ Top.step = "RESOURCE_FLUSH"
  /\ Top.phase = "ret"
  /\ Top.got # 0
  /\ Outstanding = 0

\* some exchange of a flush did not return OK_NODATA
FlushFailedBefore ==
  \E i \in DOMAIN resp_log :
    /\ resp_log[i].step \in SyncCmds
    /\ resp_log[i].ret # VIRTIO_GPU_RESP_OK_NODATA

TopLevelSync == Len(stack) = 1 /\ Top.fn = "sync"

\* C10: after a flush that returned -EINVAL, a flush called from outside a
\* flush (followed here through the steps of its own frame) passes the reentrance check and goes on to TRANSFER_TO_HOST_2D,
\* that request carries the fence flag and a fence id no earlier request
\* carried, and the flush returns 0 when both its responses are OK_NODATA.
C10_FlushAfterFailure ==
  [][(TopLevelSync /\ stack' # stack /\ Len(stack') <= 1 /\ FlushFailedBefore) =>
       /\ Top.phase = "entry" =>
            /\ priv'.in_sync
            /\ stack' = <<[Top EXCEPT !.step = "TRANSFER_TO_HOST_2D",
                                      !.phase = "add"]>>
       /\ (Top.step = "TRANSFER_TO_HOST_2D" /\ Top.phase = "add"
             /\ sent' # sent) =>
            /\ sent'[Len(sent')].hdr.type = "TRANSFER_TO_HOST_2D"
            /\ sent'[Len(sent')].hdr.flags = VIRTIO_GPU_FLAG_FENCE
            /\ \A i \in DOMAIN Fenced :
                 Fenced[i].hdr.fence_id # sent'[Len(sent')].hdr.fence_id
       /\ (Top.step = "RESOURCE_FLUSH" /\ Top.phase = "ret"
             /\ Top.ret = VIRTIO_GPU_RESP_OK_NODATA) =>
            /\ stack' = <<>>
            /\ lastRet' = 0
            /\ ~priv'.in_sync]_vars

C10_Witness ==
  /\ stack = <<>>
  /\ lastCall = "sync"
  /\ lastRet = 0
  /\ FlushFailedBefore
  /\ Len(resp_log) >= 2
  /\ resp_log[Len(resp_log) - 1].step = "TRANSFER_TO_HOST_2D"
  /\ resp_log[Len(resp_log) - 1].ret = VIRTIO_GPU_RESP_OK_NODATA
  /\ resp_log[Len(resp_log)].step = "RESOURCE_FLUSH"
  /\ resp_log[Len(resp_log)].ret = VIRTIO_GPU_RESP_OK_NODATA

\* C11: whatever the byte order of the CPU and of the device, the device
\* reads the command type the driver encoded and the driver decodes the
\* response type the device wrote, for every 32-bit value.
C11_TypeRoundTrip ==
  /\ wire.phase \in {"answered", "done"} => wire.dev_type = wire.type
  /\ wire.phase = "done" => wire.ret = wire.resp

C11_Witness ==
  /\ wire.phase = "done"
  /\ ~wire.cpu_le
  /\ wire.version_1
  /\ wire.resp = WordOf(VIRTIO_GPU_RESP_OK_DISPLAY_INFO)
  /\ wire.resp_bytes = swab32(wire.resp)
  /\ wire.ret = wire.resp

\* C12: with a device that answers, every bring-up and flush call returns;
\* and an exchange leaves the completion wait only by retrieving a posted
\* completion, without resubmitting and without an error of its own, so a
\* device that never posts one keeps the caller in the wait.
C12_ReturnsIffCompleted ==
  /\ (stack # <<>>) ~> (stack = <<>>)
  /\ [][(/\ stack # <<>>
          /\ Top.phase = "wait"
          /\ stack' # stack
          /\ Len(stack') = Len(stack))
         => (/\ used # <<>>
             /\ used' = Tail(used)
             /\ sent' = sent
             /\ stack'[Len(stack')].got = Head(used).id
             /\ stack'[Len(stack')].ret = Head(used).type)]_vars

C12_Witness ==
  /\ stack # <<>>
  /\ Top.phase = "wait"
  /\ used = <<>>
  /\ avail # <<>>
  /\ Top.step = "TRANSFER_TO_HOST_2D"

\* the requests of bring-up, in submission order
ProbeSent == SelectSeq(sent, LAMBDA r : r.hdr.type \in ProbeCmds)

\* the request bring-up issues in i-th place
StepAt(i) ==
  CASE i = 1 -> "GET_DISPLAY_INFO"
    [] i = 2 -> "RESOURCE_CREATE_2D"
    [] i = 3 -> "RESOURCE_ATTACH_BACKING"
    [] OTHER -> "SET_SCANOUT"

\* the exchange returned the type its step waits for
Matched(e) ==
  e.ret = IF e.step = "GET_DISPLAY_INFO" THEN VIRTIO_GPU_RESP_OK_DISPLAY_INFO
          ELSE VIRTIO_GPU_RESP_OK_NODATA

\* C13: bring-up issues GET_DISPLAY_INFO, RESOURCE_CREATE_2D,
\* RESOURCE_ATTACH_BACKING and then SET_SCANOUT requests in this order, the
\* i-th request only after the i-1 exchanges before it returned their
\* expected types, each step once, and after the first exchange that does
\* not, no further request is issued and bring-up returns -EINVAL.
C13_BringUpOrder ==
  /\ \A i \in DOMAIN ProbeSent :
       /\ ProbeSent[i].hdr.type = StepAt(i)
       /\ Len(ProbeLog) >= i - 1
       /\ \A j \in 1 .. i - 1 : Matched(ProbeLog[j]) /\ ProbeLog[j].step = StepAt(j)
  /\ \A i, j \in DOMAIN ProbeSent :
       (i < j /\ ProbeSent[i].hdr.type = ProbeSent[j].hdr.type)
         => (/\ ProbeSent[i].hdr.type = "SET_SCANOUT"
             /\ ProbeSent[i].scanout_id # ProbeSent[j].scanout_id)
  /\ \A i \in DOMAIN ProbeLog :
       ~Matched(ProbeLog[i]) =>
         /\ i = Len(ProbeLog)
         /\ Len(ProbeSent) <= i
         /\ dev_state \in {"Probing", "Failed"}
         /\ dev_state = "Failed" => lastCall = "probe" /\ lastRet = -EINVAL

C13_Witness ==
  /\ dev_state = "Failed"
  /\ lastRet = -EINVAL
  /\ Len(ProbeSent) = 5
  /\ Len(ProbeLog) = 5
  /\ ProbeLog[5].ret = VIRTIO_GPU_RESP_ERR_UNSPEC

\* the exchanges of the flushes, in order
SyncLog == SelectSeq(resp_log, LAMBDA e : e.step \in SyncCmds)

\* C14: a flush issues TRANSFER_TO_HOST_2D first and RESOURCE_FLUSH only
\* after TRANSFER_TO_HOST_2D returned OK_NODATA; after a failed transfer it
\* issues nothing more and returns -EINVAL; it returns 0 only when both
\* exchanges returned OK_NODATA.
C14_FlushOrder ==
  /\ \A i \in DOMAIN SyncLog :
       /\ SyncLog[i].step = "RESOURCE_FLUSH" =>
            /\ i > 1
            /\ SyncLog[i - 1].step = "TRANSFER_TO_HOST_2D"
            /\ SyncLog[i - 1].ret = VIRTIO_GPU_RESP_OK_NODATA
       /\ (SyncLog[i].step = "TRANSFER_TO_HOST_2D" /\ i < Len(SyncLog)) =>
            SyncLog[i + 1].step =
              IF SyncLog[i].ret = VIRTIO_GPU_RESP_OK_NODATA
              THEN "RESOURCE_FLUSH" ELSE "TRANSFER_TO_HOST_2D"
  /\ \A i \in DOMAIN Fenced :
       Fenced[i].hdr.type = "RESOURCE_FLUSH" =>
         i > 1 /\ Fenced[i - 1].hdr.type = "TRANSFER_TO_HOST_2D"
  /\ (stack = <<>> /\ lastCall = "sync") =>
       /\ SyncLog # <<>>
       /\ lastRet \in {0, -EINVAL}
       /\ lastRet = 0 <=>
            /\ SyncLog[Len(SyncLog)].step = "RESOURCE_FLUSH"
            /\ SyncLog[Len(SyncLog)].ret = VIRTIO_GPU_RESP_OK_NODATA

C14_Witness ==
  /\ stack = <<>>
  /\ lastCall = "sync"
  /\ lastRet = -EINVAL
  /\ Len(SyncLog) >= 3
  /\ SyncLog[Len(SyncLog)].step = "TRANSFER_TO_HOST_2D"
  /\ SyncLog[Len(SyncLog)].ret = VIRTIO_GPU_RESP_ERR_UNSPEC
  /\ SyncLog[Len(SyncLog) - 1].step = "RESOURCE_FLUSH"

\* C15: when virtqueue_add fails, the exchange ends at once with that error:
\* nothing is put on the queue, the wait is not entered, and the calling
\* step of bring-up or flush returns -EINVAL.
C15_SubmitFailurePropagates ==
  [][(stack # <<>> /\ stack' # stack /\ Len(stack') <= Len(stack)) =>
       /\ (Top.phase = "add" /\ sent' = sent) =>
            /\ Len(stack') = Len(stack)
            /\ stack'[Len(stack')].phase = "ret"
            /\ stack'[Len(stack')].ret = -ENOSPC
            /\ avail' = avail
            /\ used' = used
       /\ (Top.phase = "add" /\ sent' # sent) =>
            /\ stack'[Len(stack')].phase = "wait"
            /\ avail' = Append(avail, sent'[Len(sent')])
       /\ (Top.phase = "ret" /\ Top.req = 0) =>
            /\ Top.ret = -ENOSPC
            /\ stack' = Pop
            /\ lastRet' = -EINVAL
            /\ sent' = sent]_vars

C15_Witness ==
  /\ stack = <<>>
  /\ lastCall = "sync"
  /\ lastRet = -EINVAL
  /\ resp_log[Len(resp_log)].step = "RESOURCE_FLUSH"
  /\ resp_log[Len(resp_log)].ret = -ENOSPC
  /\ resp_log[Len(resp_log)].req = 0

\* C16: a response of the wrong size is not a failure: the exchange returns
\* the type the device wrote, and a step whose type matches goes on to its
\* next request or returns 0, as with a correctly sized response.
C16_SizeMismatchTolerated ==
  [][(stack # <<>> /\ stack' # stack /\ Len(stack') <= Len(stack)) =>
       /\ (Top.phase = "wait" /\ used # <<>>) =>
            /\ stack'[Len(stack')].phase = "ret"
            /\ stack'[Len(stack')].ret = Head(used).type
            /\ stack'[Len(stack')].len_ok = Head(used).len_ok
       /\ (Top.phase = "ret" /\ ~Top.len_ok /\ Matched(Top)) =>
            \/ /\ Len(stack') = Len(stack)
               /\ stack'[Len(stack')].phase = "add"
               /\ stack'[Len(stack')].step # Top.step
                    \/ Top.step = "SET_SCANOUT"
            \/ /\ stack' = Pop
               /\ lastRet' = 0
               /\ Top.step \in {"SET_SCANOUT", "RESOURCE_FLUSH"}
            \/ /\ stack' = Pop
               /\ lastRet' = -EINVAL
               /\ Top.step = "GET_DISPLAY_INFO"
               /\ disp_info_out = {}]_vars

\* TRANSFER_TO_HOST_2D was answered by a wrongly sized OK_NODATA and the
\* flush went on to RESOURCE_FLUSH
C16_Witness ==
  /\ stack # <<>>
  /\ Top.step = "RESOURCE_FLUSH"
  /\ Top.phase = "add"
  /\ ~Top.len_ok
  /\ resp_log[Len(resp_log)].step = "TRANSFER_TO_HOST_2D"
  /\ resp_log[Len(resp_log)].ret = VIRTIO_GPU_RESP_OK_NODATA

\* C17: without a reserved framebuffer bring-up returns -EINVAL before it
\* acquires the queue: no request is submitted, no buffer allocated, and
\* the private state stays as it was.
C17_NoFramebufferFails ==
  plat.base = 0 =>
    /\ priv = [vq |-> FALSE, scanout_res_id |-> 0, fence_id |-> 0,
               in_sync |-> FALSE]
    /\ sent = <<>>
    /\ avail = <<>>
    /\ resp_log = <<>>
    /\ \A b \in BufNames : mem.heap[b] = "unalloc"
    /\ dev_state \in {"Bound", "Probing", "Failed"}
    /\ dev_state = "Failed" => lastCall = "probe" /\ lastRet = -EINVAL

C17_Witness ==
  /\ plat.base = 0
  /\ dev_state = "Failed"
  /\ lastCall = "probe"
  /\ lastRet = -EINVAL
  /\ ~priv.vq

\* C18: the requests of bring-up carry flags 0 and fence id 0; the requests
\* of a flush carry the fence flag and the value the counter had before its
\* increment, so RESOURCE_FLUSH carries the fence id following the one of
\* the TRANSFER_TO_HOST_2D before it.
C18_FenceFields ==
  /\ [](/\ \A i \in DOMAIN sent :
            IF sent[i].hdr.type \in ProbeCmds
            THEN sent[i].hdr.flags = 0 /\ sent[i].hdr.fence_id = 0
            ELSE sent[i].hdr.flags = VIRTIO_GPU_FLAG_FENCE
        /\ \A i \in DOMAIN Fenced :
            Fenced[i].hdr.type = "RESOURCE_FLUSH" =>
              /\ i > 1
              /\ Fenced[i - 1].hdr.type = "TRANSFER_TO_HOST_2D"
              /\ Fenced[i].hdr.fence_id = Fenced[i - 1].hdr.fence_id + 1)
  /\ [][(sent' # sent /\ sent'[Len(sent')].hdr.type \in SyncCmds) =>
          /\ sent'[Len(sent')].hdr.fence_id = priv.fence_id
          /\ priv'.fence_id = priv.fence_id + 1]_vars

C18_Witness ==
  /\ stack = <<>>
  /\ lastCall = "sync"
  /\ lastRet = 0
  /\ Len(Fenced) >= 2
  /\ Fenced[Len(Fenced)].hdr.type = "RESOURCE_FLUSH"
  /\ Fenced[Len(Fenced)].hdr.fence_id = 2
  /\ Fenced[Len(Fenced) - 1].hdr.fence_id = 1
  /\ Len(ProbeSent) >= 4

\* the fenced exchanges whose submission failed
FailedFencedCalls ==
  {i \in DOMAIN resp_log : resp_log[i].step \in SyncCmds /\ resp_log[i].req = 0}

\* C19: every fenced exchange advances the fence counter by one, also when
\* its submission fails; an unfenced exchange leaves it alone, so bring-up
\* never changes it, and the counter is past every fence id handed out.
C19_FenceCounterFrame ==
  /\ [](/\ priv.fence_id = Len(Fenced) + Cardinality(FailedFencedCalls)
        /\ (dev_state \in {"Bound", "Probing", "Failed"} => priv.fence_id = 0)
        /\ \A i \in DOMAIN Fenced : Fenced[i].hdr.fence_id < priv.fence_id)
  /\ [][/\ ((/\ stack # <<>>
              /\ Top.phase = "add"
              /\ stack' # stack
              /\ Len(stack') = Len(stack)) =>
               priv'.fence_id =
                 priv.fence_id + (IF Top.step \in SyncCmds THEN 1 ELSE 0))
         /\ (priv'.fence_id # priv.fence_id =>
              /\ stack # <<>>
              /\ Top.fn = "sync"
              /\ Top.phase = "add"
              /\ stack'[Len(stack')].phase \in {"wait", "ret"})]_vars

C19_Witness ==
  /\ FailedFencedCalls # {}
  /\ Len(Fenced) >= 1
  /\ \E i \in FailedFencedCalls :
       /\ i < Len(resp_log)
       /\ resp_log[i].step = "TRANSFER_TO_HOST_2D"
  /\ Fenced[Len(Fenced)].hdr.fence_id = priv.fence_id - 1
  /\ priv.fence_id > Len(Fenced)

\* C20: the framebuffer length that bind records and that
\* RESOURCE_ATTACH_BACKING attaches is at least X * Y * 4 bytes: it covers
\* the resource created by RESOURCE_CREATE_2D and the rectangle every flush
\* transfers.
C20_LengthCoversResource ==
  /\ fb.phase # "start" => fb.size >= fb.X * fb.Y * 4
  /\ fb.phase \in {"attached", "flushed"} =>
       /\ fb.attach_len >= fb.X * fb.Y * 4
       /\ fb.attach_len >= fb.create_w * fb.create_h * VNBYTES(fb.bpix)
  /\ fb.phase = "flushed" =>
       fb.attach_len >= fb.rect_w * fb.rect_h * VNBYTES(fb.bpix)

\* a flush of a display taller than wide: the attached length is X * X * 4,
\* short of the rectangle transferred
C20_Witness ==
  /\ fb.phase = "flushed"
  /\ fb.Y > fb.X
  /\ fb.attach_len = fb.X * fb.X * 4
  /\ fb.attach_len < fb.rect_w * fb.rect_h * 4

====
